---------------------------- MODULE Spec2Model ----------------------------
(***************************************************************************)
(* One LED Watch (src/oneLedWatch.py): a 12-hour clock advanced by a       *)
(* periodic timer callback, a falling-edge button interrupt with a         *)
(* single-sample debounce, and a cooperative main task that shows the      *)
(* time as three groups of LED pulses.                                     *)
(*                                                                         *)
(* Execution contexts:                                                     *)
(*   - tick(t)            timer callback, may run between any two steps    *)
(*   - button_handler(p)  pin interrupt, blocks everything else during its *)
(*                        utime.sleep_ms(20), then samples the line        *)
(*   - main()             one step per statement of the while-loop, of     *)
(*                        display_time and of flash_group                  *)
(* The button line itself is the environment: it falls and rises freely.   *)
(***************************************************************************)
EXTENDS Integers, Sequences, FiniteSets

VARIABLES
    hour, minute, second, ampm,   \* clock globals, lines 29-32
    time_updated,                 \* global flag, line 47
    button_pressed,               \* global flag, line 46 (the ButtonRequest)
    irq_handler,                  \* TRUE iff button_handler is registered on the pin
    line,                         \* button.value(): 1 released (pull-up), 0 pressed
    led,                          \* led.value()
    isr,                          \* "none" | "debounce": button_handler inside sleep_ms(20)
    pc,                           \* position of the main task
    cur_hour, cur_minute,         \* main's snapshot locals, lines 136-137
    dt_h, dt_m,                   \* display_time's parameters h, m
    phase,                        \* which call of flash_group is running
    count, on_time, off_time,     \* flash_group's parameters
    fg_i,                         \* flash_group's loop index i
    events,                       \* LED writes and sleeps of the current display_time call
    fg_events,                    \* LED writes and sleeps of the current flash_group call
    prev_clock,                   \* history: <<hour, minute, second, ampm>> before the last tick
    new_press,                    \* history: a falling edge reached the handler since the last re-arm
    nticks,                       \* number of timer callbacks so far (bounded)
    snap_hist,                    \* history: << hour, minute >> of the clock when main read hour,
                                  \*   when it read minute, and when it entered display_time
    owed,                         \* history: settings of button_pressed not yet followed by a display
    last_hm,                      \* history: << h, m >> of the previous display_time call
    last_events,                  \* history: the events of the previous display_time call
    held,                         \* history: the line read pressed from the entry of the latest
                                  \*   display_time call to its return
    start_clock,                  \* history: the clock reading SpecPeriod started from
    toggles                       \* history: changes of ampm counted by SpecPeriod

vars == << hour, minute, second, ampm, time_updated, button_pressed, irq_handler,
           line, led, isr, pc, cur_hour, cur_minute, dt_h, dt_m, phase, count,
           on_time, off_time, fg_i, events, fg_events, prev_clock, new_press, nticks,
           snap_hist, owed, last_hm, last_events, held, start_clock, toggles >>

clockVars   == << hour, minute, second, ampm, time_updated, prev_clock >>
buttonVars  == << button_pressed, irq_handler, line, isr, new_press >>
mainVars    == << pc, cur_hour, cur_minute >>
displayVars == << dt_h, dt_m, phase, count, on_time, off_time, fg_i, led,
                  events, fg_events >>
servHist    == << snap_hist, owed, last_hm, last_events, held >>
periodHist  == << start_clock, toggles >>

\* Bound: how many timer callbacks a behaviour of Spec may contain.
MaxTicks == 3

(***************************************************************************)
(* Program constants                                                       *)
(***************************************************************************)
BootHour   == 5
BootMinute == 43
BootSecond == 0
BootAmPm   == 0

HourOn     == 1000
HourOff    == 500
QuarterOn  == 500
QuarterOff == 500
MinuteOn   == 250
MinuteOff  == 500
PauseSec   == 1

BootTime == << BootHour, BootMinute, BootSecond, BootAmPm >>

\* No tick has happened yet (hour 0 is not a clock value).
NoTick == << 0, 0, 0, 0 >>

\* Clock readings from which Spec starts: the boot time and readings the
\* timer reaches from it while main is still polling, chosen just before the
\* minute, hour, 11->12 and 12->1 roll-overs.
StartTimes ==
    { BootTime,
      << 5, 43, 58, 0 >>,
      << 5, 59, 58, 0 >>,
      << 11, 59, 58, 0 >>,
      << 11, 59, 58, 1 >>,
      << 12, 59, 58, 1 >> }

ValidTimes == (1..12) \X (0..59) \X (0..59) \X {0, 1}

(***************************************************************************)
(* tick(t), lines 66-81                                                    *)
(***************************************************************************)
SecondWrapsMut(s) == s >= 59
SecondWraps(s) == s >= 60

MinuteWrapsMut(mi) == mi > 60
MinuteWraps(mi) == mi >= 60

HourWrapsMut(hr) == hr > 13
HourWraps(hr) == hr > 12

AmPmTogglesMut(old_hour, hr) == old_hour = 12 /\ hr = 1
AmPmToggles(old_hour, hr) == old_hour = 11 /\ hr = 12

\* line 80 written as ampm = True: the meridiem is set, not toggled.
NotAmPmMut(a) == IF a = 0 THEN 1 ELSE 1

\* `not ampm`: Python's bool is kept by its integer value (True = 1, False = 0).
NotAmPm(a) == IF a = 0 THEN 1 ELSE 0

\* The clock after one run of tick's body, as << hour, minute, second, ampm >>.
TickClock(hr, mi, s, a) ==
    LET s1 == s + 1 IN
    IF ~SecondWraps(s1) THEN << hr, mi, s1, a >>
    ELSE LET mi1 == mi + 1 IN
         IF ~MinuteWraps(mi1) THEN << hr, mi1, 0, a >>
         ELSE LET hr1 == hr + 1
                  hr2 == IF HourWraps(hr1) THEN 1 ELSE hr1
                  a1  == IF AmPmToggles(hr, hr2) THEN NotAmPm(a) ELSE a
              IN  << hr2, 0, 0, a1 >>

tick ==
    LET t == TickClock(hour, minute, second, ampm) IN
    /\ hour' = t[1]
    /\ minute' = t[2]
    /\ second' = t[3]
    /\ ampm' = t[4]
    /\ time_updated' = TRUE
    /\ prev_clock' = << hour, minute, second, ampm >>
    /\ UNCHANGED << buttonVars, mainVars, displayVars, servHist >>

\* The periodic timer of line 84 firing once more.
TimerFire ==
    /\ nticks < MaxTicks
    /\ nticks' = nticks + 1
    /\ tick
    /\ UNCHANGED periodHist

(***************************************************************************)
(* The button line and button_handler(pin), lines 52-59                    *)
(***************************************************************************)
\* The scheduler states of the design, by position of the main task.
IdlePcs      == { "poll", "clear", "disable", "snap_hour", "snap_minute",
                  "call_display", "idle_sleep" }
ReleasePcs   == { "release_poll", "release_sleep", "settle", "rearm" }
SchedState ==
    IF pc \in IdlePcs THEN "IDLE"
    ELSE IF pc \in ReleasePcs THEN "AWAIT_RELEASE"
    ELSE "SERVICING"

\* The pin's interrupt fires on a falling edge if a handler is registered.
IrqFires == irq_handler /\ isr = "none"

\* The line falls (a press, or a bounce). With the handler registered the
\* interrupt enters button_handler, which starts its sleep_ms(20).
ButtonFall ==
    /\ line = 1
    /\ line' = 0
    /\ isr' = IF IrqFires THEN "debounce" ELSE isr
    /\ new_press' = IF IrqFires THEN TRUE ELSE new_press
    /\ UNCHANGED << button_pressed, irq_handler, nticks, servHist, periodHist >>
    /\ UNCHANGED << clockVars, mainVars, displayVars >>

\* The line rises (a release, or a bounce).
ButtonRise ==
    /\ line = 0
    /\ line' = 1
    /\ held' = IF SchedState = "SERVICING" THEN FALSE ELSE held
    /\ UNCHANGED << snap_hist, owed, last_hm, last_events >>
    /\ UNCHANGED << button_pressed, irq_handler, isr, new_press, nticks, periodHist >>
    /\ UNCHANGED << clockVars, mainVars, displayVars >>

\* The re-sample ignored: the flag is set on every falling edge.
StillAssertedMut(v) == v = 0 \/ v = 1

\* The re-sample after the debounce delay.
StillAsserted(v) == v = 0

\* lines 56-57 written as button_pressed = (pin.value() == 0): the handler
\* also withdraws a pending request.
ButtonHandlerSampleMut ==
    /\ isr = "debounce"
    /\ button_pressed' = StillAsserted(line)
    /\ isr' = "none"
    /\ owed' = IF StillAsserted(line) /\ ~button_pressed THEN owed + 1 ELSE owed
    /\ UNCHANGED << irq_handler, line, new_press, nticks >>
    /\ UNCHANGED << snap_hist, last_hm, last_events, held, periodHist >>
    /\ UNCHANGED << clockVars, mainVars, displayVars >>

\* button_handler after its sleep_ms(20): lines 56-57.
ButtonHandlerSample ==
    /\ isr = "debounce"
    /\ button_pressed' = IF StillAsserted(line) THEN TRUE ELSE button_pressed
    /\ isr' = "none"
    /\ owed' = IF StillAsserted(line) /\ ~button_pressed THEN owed + 1 ELSE owed
    /\ UNCHANGED << irq_handler, line, new_press, nticks >>
    /\ UNCHANGED << snap_hist, last_hm, last_events, held, periodHist >>
    /\ UNCHANGED << clockVars, mainVars, displayVars >>

(***************************************************************************)
(* main(), lines 127-150.  button_handler's sleep is a blocking one in     *)
(* interrupt context, so main takes no step while isr = "debounce".        *)
(***************************************************************************)
MainAt(p) == pc = p /\ isr = "none"

\* line 129: if button_pressed
MainPoll ==
    /\ MainAt("poll")
    /\ pc' = IF button_pressed THEN "clear" ELSE "idle_sleep"
    /\ UNCHANGED << cur_hour, cur_minute, nticks, servHist, periodHist >>
    /\ UNCHANGED << clockVars, buttonVars, displayVars >>

\* line 130 left out: the request flag is not cleared.
MainClearMut ==
    /\ MainAt("clear")
    /\ pc' = "disable"
    /\ UNCHANGED << button_pressed, irq_handler, line, isr, new_press >>
    /\ UNCHANGED << cur_hour, cur_minute, nticks, servHist, periodHist >>
    /\ UNCHANGED << clockVars, displayVars >>

\* line 130: button_pressed = False
MainClear ==
    /\ MainAt("clear")
    /\ button_pressed' = FALSE
    /\ pc' = "disable"
    /\ UNCHANGED << irq_handler, line, isr, new_press, cur_hour, cur_minute, nticks, servHist, periodHist >>
    /\ UNCHANGED << clockVars, displayVars >>

\* line 133: button.irq(handler=None)
MainDisableIrq ==
    /\ MainAt("disable")
    /\ irq_handler' = FALSE
    /\ pc' = "snap_hour"
    /\ UNCHANGED << button_pressed, line, isr, new_press, cur_hour, cur_minute, nticks, servHist, periodHist >>
    /\ UNCHANGED << clockVars, displayVars >>

\* line 136: cur_hour = hour
MainSnapHour ==
    /\ MainAt("snap_hour")
    /\ cur_hour' = hour
    /\ pc' = "snap_minute"
    /\ snap_hist' = << << hour, minute >> >>
    /\ UNCHANGED << cur_minute, nticks >>
    /\ UNCHANGED << owed, last_hm, last_events, held, periodHist >>
    /\ UNCHANGED << clockVars, buttonVars, displayVars >>

\* line 137: cur_minute = minute
MainSnapMinute ==
    /\ MainAt("snap_minute")
    /\ cur_minute' = minute
    /\ pc' = "call_display"
    /\ snap_hist' = Append(snap_hist, << hour, minute >>)
    /\ UNCHANGED << cur_hour, nticks >>
    /\ UNCHANGED << owed, last_hm, last_events, held, periodHist >>
    /\ UNCHANGED << clockVars, buttonVars, displayVars >>

\* lines 138-139: display_time(cur_hour, cur_minute) is entered
MainCallDisplay ==
    /\ MainAt("call_display")
    /\ dt_h' = cur_hour
    /\ dt_m' = cur_minute
    /\ events' = << >>
    /\ pc' = "dt_hour"
    /\ snap_hist' = Append(snap_hist, << hour, minute >>)
    /\ owed' = owed - 1
    /\ last_hm' = << dt_h, dt_m >>
    /\ last_events' = events
    /\ held' = (line = 0)
    /\ UNCHANGED << phase, count, on_time, off_time, fg_i, led, fg_events >>
    /\ UNCHANGED << cur_hour, cur_minute, nticks, periodHist >>
    /\ UNCHANGED << clockVars, buttonVars >>

\* display_time has returned: line 139 completes, main goes on to line 142
MainDisplayDone ==
    /\ MainAt("dt_return")
    /\ pc' = "release_poll"
    /\ UNCHANGED << cur_hour, cur_minute, nticks, servHist, periodHist >>
    /\ UNCHANGED << clockVars, buttonVars, displayVars >>

\* line 142 testing the wrong level: while button.value() == 1.
MainReleasePollWrongLevel ==
    /\ MainAt("release_poll")
    /\ pc' = IF line = 1 THEN "release_sleep" ELSE "settle"
    /\ UNCHANGED << cur_hour, cur_minute, nticks, servHist, periodHist >>
    /\ UNCHANGED << clockVars, buttonVars, displayVars >>

\* line 142: while button.value() == 0
MainReleasePoll ==
    /\ MainAt("release_poll")
    /\ pc' = IF line = 0 THEN "release_sleep" ELSE "settle"
    /\ UNCHANGED << cur_hour, cur_minute, nticks, servHist, periodHist >>
    /\ UNCHANGED << clockVars, buttonVars, displayVars >>

\* line 143: await asyncio.sleep_ms(10)
MainReleaseSleep ==
    /\ MainAt("release_sleep")
    /\ pc' = "release_poll"
    /\ UNCHANGED << cur_hour, cur_minute, nticks, servHist, periodHist >>
    /\ UNCHANGED << clockVars, buttonVars, displayVars >>

\* line 144: await asyncio.sleep_ms(50)
MainSettle ==
    /\ MainAt("settle")
    /\ pc' = "rearm"
    /\ UNCHANGED << cur_hour, cur_minute, nticks, servHist, periodHist >>
    /\ UNCHANGED << clockVars, buttonVars, displayVars >>

\* line 147: button.irq(trigger=Pin.IRQ_FALLING, handler=button_handler)
MainRearm ==
    /\ MainAt("rearm")
    /\ irq_handler' = TRUE
    /\ new_press' = FALSE
    /\ pc' = "idle_sleep"
    /\ UNCHANGED << button_pressed, line, isr, cur_hour, cur_minute, nticks, servHist, periodHist >>
    /\ UNCHANGED << clockVars, displayVars >>

\* line 150: await asyncio.sleep_ms(100)
MainIdleSleep ==
    /\ MainAt("idle_sleep")
    /\ pc' = "poll"
    /\ UNCHANGED << cur_hour, cur_minute, nticks, servHist, periodHist >>
    /\ UNCHANGED << clockVars, buttonVars, displayVars >>

(***************************************************************************)
(* display_time(h, m), lines 89-107, and flash_group, lines 109-116        *)
(***************************************************************************)
LedWrite(v)  == << "led", v >>
SleepMs(ms)  == << "sleep_ms", ms >>
SleepSec(sec) == << "sleep", sec >>

\* line 98: quarters = m // 15
QuartersMut(mi) == mi \div 10
Quarters(mi) == mi \div 15

\* line 104: minutes_mod = m % 15
MinutesMod(mi) == mi % 15

\* lines 93, 99, 105: a group is flashed only for a positive count
GroupDueMut(c) == c >= 0
GroupDue(c) == c > 0

\* line 115: the off-wait is skipped after the last pulse
OffWaitDueMut(idx, c) == idx < c
OffWaitDue(idx, c) == idx < c - 1

\* Where display_time continues when flash_group returns.
ReturnPc(ph) ==
    CASE ph = "hour"    -> "dt_pause_h"
      [] ph = "quarter" -> "dt_pause_q"
      [] ph = "minutes" -> "dt_return"

\* await flash_group(c, on, off) is entered from display_time.
CallFlashGroup(ph, c, on, off) ==
    /\ phase' = ph
    /\ count' = c
    /\ on_time' = on
    /\ off_time' = off
    /\ fg_i' = 0
    /\ fg_events' = << >>
    /\ pc' = "fg_loop"
    /\ UNCHANGED << dt_h, dt_m, led, events >>

displayFrame ==
    /\ UNCHANGED << cur_hour, cur_minute, nticks, servHist, periodHist >>
    /\ UNCHANGED << clockVars, buttonVars >>

\* lines 93-94: if h > 0: await flash_group(h, 1000, 500)
DtHour ==
    /\ MainAt("dt_hour")
    /\ IF GroupDue(dt_h)
         THEN CallFlashGroup("hour", dt_h, HourOn, HourOff)
         ELSE /\ pc' = "dt_quarters"
              /\ UNCHANGED displayVars
    /\ displayFrame

\* line 95: await asyncio.sleep(1)
DtPauseHour ==
    /\ MainAt("dt_pause_h")
    /\ events' = Append(events, SleepSec(PauseSec))
    /\ pc' = "dt_quarters"
    /\ UNCHANGED << dt_h, dt_m, phase, count, on_time, off_time, fg_i, led, fg_events >>
    /\ displayFrame

\* lines 98-100 reading the live global minute instead of the parameter m.
DtQuartersMut ==
    /\ MainAt("dt_quarters")
    /\ IF GroupDue(Quarters(minute))
         THEN CallFlashGroup("quarter", Quarters(minute), QuarterOn, QuarterOff)
         ELSE /\ pc' = "dt_minutes"
              /\ UNCHANGED displayVars
    /\ displayFrame

\* lines 98-100: quarters = m // 15; if quarters > 0: await flash_group(quarters, 500, 500)
DtQuarters ==
    /\ MainAt("dt_quarters")
    /\ IF GroupDue(Quarters(dt_m))
         THEN CallFlashGroup("quarter", Quarters(dt_m), QuarterOn, QuarterOff)
         ELSE /\ pc' = "dt_minutes"
              /\ UNCHANGED displayVars
    /\ displayFrame

\* line 101: await asyncio.sleep(1)
DtPauseQuarter ==
    /\ MainAt("dt_pause_q")
    /\ events' = Append(events, SleepSec(PauseSec))
    /\ pc' = "dt_minutes"
    /\ UNCHANGED << dt_h, dt_m, phase, count, on_time, off_time, fg_i, led, fg_events >>
    /\ displayFrame

\* lines 104-106 reading the live global minute instead of the parameter m.
DtMinutesMut ==
    /\ MainAt("dt_minutes")
    /\ IF GroupDue(MinutesMod(minute))
         THEN CallFlashGroup("minutes", MinutesMod(minute), MinuteOn, MinuteOff)
         ELSE /\ pc' = "dt_return"
              /\ UNCHANGED displayVars
    /\ displayFrame

\* lines 104-106: minutes_mod = m % 15; if minutes_mod > 0: await flash_group(minutes_mod, 250, 500)
DtMinutes ==
    /\ MainAt("dt_minutes")
    /\ IF GroupDue(MinutesMod(dt_m))
         THEN CallFlashGroup("minutes", MinutesMod(dt_m), MinuteOn, MinuteOff)
         ELSE /\ pc' = "dt_return"
              /\ UNCHANGED displayVars
    /\ displayFrame

\* line 111: for i in range(count)
FgLoop ==
    /\ MainAt("fg_loop")
    /\ pc' = IF fg_i < count THEN "fg_on" ELSE ReturnPc(phase)
    /\ UNCHANGED displayVars
    /\ displayFrame

\* line 112: led.value(1)
FgOn ==
    /\ MainAt("fg_on")
    /\ led' = 1
    /\ events' = Append(events, LedWrite(1))
    /\ fg_events' = Append(fg_events, LedWrite(1))
    /\ pc' = "fg_on_sleep"
    /\ UNCHANGED << dt_h, dt_m, phase, count, on_time, off_time, fg_i >>
    /\ displayFrame

\* line 113: await asyncio.sleep_ms(on_time)
FgOnSleep ==
    /\ MainAt("fg_on_sleep")
    /\ events' = Append(events, SleepMs(on_time))
    /\ fg_events' = Append(fg_events, SleepMs(on_time))
    /\ pc' = "fg_off"
    /\ UNCHANGED << dt_h, dt_m, phase, count, on_time, off_time, fg_i, led >>
    /\ displayFrame

\* lines 114-115 switching the LED off only when an off-wait follows.
FgOffMut ==
    /\ MainAt("fg_off")
    /\ led' = IF OffWaitDue(fg_i, count) THEN 0 ELSE 1
    /\ events' = Append(events, LedWrite(0))
    /\ fg_events' = Append(fg_events, LedWrite(0))
    /\ IF OffWaitDue(fg_i, count)
         THEN pc' = "fg_off_sleep" /\ fg_i' = fg_i
         ELSE pc' = "fg_loop" /\ fg_i' = fg_i + 1
    /\ UNCHANGED << dt_h, dt_m, phase, count, on_time, off_time >>
    /\ displayFrame

\* lines 114-115: led.value(0); if i < count - 1
FgOff ==
    /\ MainAt("fg_off")
    /\ led' = 0
    /\ events' = Append(events, LedWrite(0))
    /\ fg_events' = Append(fg_events, LedWrite(0))
    /\ IF OffWaitDue(fg_i, count)
         THEN pc' = "fg_off_sleep" /\ fg_i' = fg_i
         ELSE pc' = "fg_loop" /\ fg_i' = fg_i + 1
    /\ UNCHANGED << dt_h, dt_m, phase, count, on_time, off_time >>
    /\ displayFrame

\* line 116: await asyncio.sleep_ms(off_time)
FgOffSleep ==
    /\ MainAt("fg_off_sleep")
    /\ events' = Append(events, SleepMs(off_time))
    /\ fg_events' = Append(fg_events, SleepMs(off_time))
    /\ fg_i' = fg_i + 1
    /\ pc' = "fg_loop"
    /\ UNCHANGED << dt_h, dt_m, phase, count, on_time, off_time, led >>
    /\ displayFrame

(***************************************************************************)
(* Specifications                                                          *)
(***************************************************************************)
\* What module load leaves behind, apart from the clock and the main task.
InitRest ==
    /\ button_pressed = FALSE
    /\ led = 0
    /\ isr = "none"
    /\ cur_hour = 0
    /\ cur_minute = 0
    /\ phase = "none"
    /\ count = 0
    /\ on_time = 0
    /\ off_time = 0
    /\ fg_i = 0
    /\ events = << >>
    /\ fg_events = << >>
    /\ new_press = FALSE
    /\ nticks = 0
    /\ snap_hist = << >>
    /\ owed = 0
    /\ last_hm = << 0, 0 >>
    /\ last_events = << >>
    /\ held = FALSE
    /\ toggles = 0

InitClock(t) ==
    /\ hour = t[1]
    /\ minute = t[2]
    /\ second = t[3]
    /\ ampm = t[4]
    /\ time_updated = (t # BootTime)
    /\ prev_clock = NoTick

\* The whole program: lines 29-59 and 84 have run and main is at its first
\* poll, the button released, the clock at one of StartTimes.
Init ==
    /\ \E t \in StartTimes : InitClock(t)
    /\ irq_handler = TRUE
    /\ line = 1
    /\ pc = "poll"
    /\ dt_h = 0
    /\ dt_m = 0
    /\ start_clock = NoTick
    /\ InitRest

MainStep ==
    \/ MainPoll
    \/ MainClear
    \/ MainDisableIrq
    \/ MainSnapHour
    \/ MainSnapMinute
    \/ MainCallDisplay
    \/ MainDisplayDone
    \/ MainReleasePoll
    \/ MainReleaseSleep
    \/ MainSettle
    \/ MainRearm
    \/ MainIdleSleep

DisplayStep ==
    \/ DtHour
    \/ DtPauseHour
    \/ DtQuarters
    \/ DtPauseQuarter
    \/ DtMinutes
    \/ FgLoop
    \/ FgOn
    \/ FgOnSleep
    \/ FgOff
    \/ FgOffSleep

Next ==
    \/ TimerFire
    \/ ButtonFall
    \/ ButtonRise
    \/ ButtonHandlerSample
    \/ MainStep
    \/ DisplayStep

Spec == Init /\ [][Next]_vars

\* The clock alone: every valid reading, advanced by tick.
InitTick ==
    /\ \E t \in ValidTimes : InitClock(t)
    /\ irq_handler = TRUE
    /\ line = 1
    /\ pc = "poll"
    /\ dt_h = 0
    /\ dt_m = 0
    /\ start_clock = NoTick
    /\ InitRest

NextTick == tick /\ UNCHANGED << nticks, periodHist >>

SpecTick == InitTick /\ [][NextTick]_vars

\* display_time alone: entered with every snapshot (h, m) a valid clock can
\* give, the button interrupt disabled and the button still held.
InitDisplay ==
    /\ \E hh \in 1..12, mm \in 0..59 :
          /\ InitClock(<< hh, mm, 0, 0 >>)
          /\ dt_h = hh
          /\ dt_m = mm
    /\ irq_handler = FALSE
    /\ line = 0
    /\ pc = "dt_hour"
    /\ start_clock = NoTick
    /\ InitRest

NextDisplay == DisplayStep

SpecDisplay == InitDisplay /\ [][NextDisplay]_vars

(***************************************************************************)
(* Reading a trace of LED writes and sleeps                                *)
(***************************************************************************)
Rep(x, n) == [k \in 1..n |-> x]

\* The LED values written, in order.
RECURSIVE LedSeq(_)
LedSeq(ev) ==
    IF ev = << >> THEN << >>
    ELSE IF Head(ev)[1] = "led" THEN << Head(ev)[2] >> \o LedSeq(Tail(ev))
    ELSE LedSeq(Tail(ev))

\* The number of times the LED is switched on.
LedOnCount(ev) == Cardinality({ k \in 1..Len(ev) : ev[k] = << "led", 1 >> })

\* For each switching-on, how long the LED then stays on: the sleep_ms that
\* follows it and is followed by the switching-off (0 if there is none).
RECURSIVE PulseWidthsFrom(_, _)
PulseWidthsFrom(ev, k) ==
    IF k > Len(ev) THEN << >>
    ELSE IF ev[k] = << "led", 1 >>
         THEN << IF /\ k + 2 <= Len(ev)
                    /\ ev[k + 1][1] = "sleep_ms"
                    /\ ev[k + 2] = << "led", 0 >>
                 THEN ev[k + 1][2] ELSE 0 >> \o PulseWidthsFrom(ev, k + 1)
         ELSE PulseWidthsFrom(ev, k + 1)
PulseWidths(ev) == PulseWidthsFrom(ev, 1)

\* A pulse group as the display protocol words it: c pulses of `on` ms, with
\* `off` ms between consecutive pulses and nothing after the last one.
RECURSIVE GroupSeq(_, _, _)
GroupSeq(c, on, off) ==
    IF c <= 0 THEN << >>
    ELSE IF c = 1 THEN << << "led", 1 >>, << "sleep_ms", on >>, << "led", 0 >> >>
    ELSE << << "led", 1 >>, << "sleep_ms", on >>, << "led", 0 >>, << "sleep_ms", off >> >>
         \o GroupSeq(c - 1, on, off)

\* The inter-group pause of 1000 ms: asyncio.sleep of one second.
PauseEvent == << "sleep", 1 >>

DisplayDone == pc = "dt_return"
GroupDone == pc \in { "dt_pause_h", "dt_pause_q", "dt_return" } /\ count >= 1

(***************************************************************************)
(* Claims                                                                  *)
(***************************************************************************)

\* C1: for every snapshot (h, m), h in 1..12, m in 0..59, a finished
\* display_time(h, m) has switched the LED on exactly h + m div 15 + m mod 15
\* times, and the on-times of these pulses are, in order, h times 1000 ms,
\* then m div 15 times 500 ms, then m mod 15 times 250 ms; while it runs it
\* never exceeds that number of switchings-on.
C1_PulseCounts ==
    LET q == dt_m \div 15
        r == dt_m % 15
    IN  /\ LedOnCount(events) <= dt_h + q + r
        /\ DisplayDone =>
             /\ LedOnCount(events) = dt_h + q + r
             /\ PulseWidths(events) = Rep(1000, dt_h) \o Rep(500, q) \o Rep(250, r)

\* C1 witness: 1:37 has been displayed with 1 + 2 + 7 = 10 pulses.
C1_Witness ==
    /\ DisplayDone
    /\ dt_h = 1
    /\ dt_m = 37
    /\ LedOnCount(events) = 10

\* C2 (as claimed): for every hour h, a finished display_time(h, 0) consists
\* of the hour group alone, ending at the LED-off of the last hour pulse with
\* no pause and no trailing wait.
C2_HourOnlyNoPause ==
    (DisplayDone /\ dt_m = 0) => events = GroupSeq(dt_h, 1000, 500)

\* C3: in a finished display_time(h, m), what follows the hour group and its
\* pause is: the quarter group and then a 1000 ms pause if m div 15 > 0 and
\* neither of them if m div 15 = 0; then the remainder group if m mod 15 > 0
\* and nothing if m mod 15 = 0; nothing follows the remainder group.
C3_SkipIfZero ==
    LET q == dt_m \div 15
        r == dt_m % 15
        afterHour == SubSeq(events, 4 * dt_h + 1, Len(events))
    IN  DisplayDone =>
          afterHour =
              (IF q > 0 THEN GroupSeq(q, 500, 500) \o << PauseEvent >> ELSE << >>)
              \o (IF r > 0 THEN GroupSeq(r, 250, 500) ELSE << >>)

\* C3 witness: 3:30 has been displayed; the quarter group and its pause were
\* emitted and the remainder group was skipped, so the pause is the last event.
C3_Witness ==
    /\ DisplayDone
    /\ dt_h = 3
    /\ dt_m = 30
    /\ Len(events) > 4 * dt_h
    /\ events[Len(events)] = PauseEvent

\* C4: in flash_group(count, on, off) with count >= 1 the LED writes
\* alternate, starting with on; when the group has returned they are count
\* times on/off and end with off, and the off-wait follows every switching-off
\* except the last one: it occurs exactly count - 1 times.
C4_GroupAlternates ==
    LET leds == LedSeq(fg_events)
        n    == Len(fg_events)
        offWaits == { k \in 2..n : /\ fg_events[k] = << "sleep_ms", off_time >>
                                   /\ fg_events[k - 1] = << "led", 0 >> }
    IN  /\ \A k \in 1..Len(leds) : leds[k] = k % 2
        /\ GroupDone =>
             /\ Len(leds) = 2 * count
             /\ fg_events[n] = << "led", 0 >>
             /\ Cardinality(offWaits) = count - 1
             /\ \A k \in 1..(n - 1) :
                  fg_events[k] = << "led", 0 >> => (k + 1) \in offWaits

\* C4 witness: a quarter group of three pulses has returned.
C4_Witness ==
    /\ pc = "dt_pause_q"
    /\ count = 3
    /\ Len(fg_events) = 11

\* C5: a tick at second in 0..58 increments second by one and leaves minute,
\* hour and ampm as they were.
C5_TickSecond ==
    (prev_clock # NoTick /\ prev_clock[3] <= 58) =>
        /\ second = prev_clock[3] + 1
        /\ minute = prev_clock[2]
        /\ hour = prev_clock[1]
        /\ ampm = prev_clock[4]

\* C5 witness: a tick has run at second 58.
C5_Witness == prev_clock # NoTick /\ prev_clock[3] = 58 /\ second = 59

\* C6: a tick at second 59 with minute < 59 sets second to 0, increments
\* minute and leaves hour; a tick at minute 59, second 59 sets both to 0 and
\* moves hour to its cyclic successor (h + 1 for h in 1..11, 1 for h = 12).
C6_TickRollover ==
    /\ (prev_clock # NoTick /\ prev_clock[3] = 59 /\ prev_clock[2] < 59) =>
          /\ second = 0
          /\ minute = prev_clock[2] + 1
          /\ hour = prev_clock[1]
    /\ (prev_clock # NoTick /\ prev_clock[3] = 59 /\ prev_clock[2] = 59) =>
          /\ second = 0
          /\ minute = 0
          /\ hour = IF prev_clock[1] = 12 THEN 1 ELSE prev_clock[1] + 1

\* C6 witness: a tick has run at 12:59:59.
C6_Witness ==
    /\ prev_clock # NoTick
    /\ prev_clock[1] = 12 /\ prev_clock[2] = 59 /\ prev_clock[3] = 59
    /\ hour = 1

\* C7: in every reachable state of the whole program the clock is a valid
\* 12-hour reading: second and minute in 0..59, hour in 1..12, ampm AM or PM.
C7_ClockValid ==
    /\ second \in 0..59
    /\ minute \in 0..59
    /\ hour \in 1..12
    /\ ampm \in {0, 1}

\* C7 witness: the hour has rolled over from 12 to 1 while a display
\* requested by the button was running.
C7_Witness ==
    /\ prev_clock # NoTick
    /\ prev_clock[1] = 12
    /\ hour = 1
    /\ SchedState = "SERVICING"

\* C8: a step of the program changes ampm if and only if it moves hour from
\* 11 to 12; the step from 12 to 1 and the steps of the button handler and of
\* the main task leave it alone.
C8_MeridiemFlip ==
    [][ (ampm' # ampm) <=> (hour = 11 /\ hour' = 12) ]_vars

\* C8 witness: the tick at 11:59:59 has run and ampm has flipped.
C8_Witness ==
    /\ prev_clock # NoTick
    /\ prev_clock[1] = 11
    /\ hour = 12
    /\ ampm # prev_clock[4]

\* C9 (as claimed): a falling edge during SERVICING or AWAIT_RELEASE neither
\* enters the handler nor sets button_pressed, and once the scheduler is back
\* in IDLE a display starts only after a new falling edge has reached the
\* handler since the re-arm.
C9_NoExtraDisplay ==
    [][ /\ (SchedState # "IDLE" /\ line = 1 /\ line' = 0) =>
             (button_pressed' = button_pressed /\ isr' = "none")
        /\ (pc = "poll" /\ pc' = "clear") => new_press ]_vars

\* C10 (as claimed): from the disabling of the button interrupt to its
\* re-arming, button_pressed is False.
C10_NoPendingWhileServicing == ~irq_handler => ~button_pressed

\* C11 (as claimed): the pair (cur_hour, cur_minute) that main has read is
\* the clock's (hour, minute) of one single instant.  Fewer than 60 ticks
\* change (hour, minute) at most once, so the readings at the instant hour was
\* read and at the instant minute was read are all the readings in between.
C11_AtomicSnapshot ==
    pc = "call_display" =>
        << cur_hour, cur_minute >> \in { snap_hist[1], snap_hist[2] }

\* C12: every setting of button_pressed by the handler (False -> True; a
\* press that finds it already True sets nothing more) is followed by exactly
\* one display: the settings not yet displayed are the flag itself, if set,
\* plus the request main has cleared at line 130 and not yet begun to display;
\* so the flag is cleared before each display begins and no display begins
\* without a setting of its own.
C12_CapturedOnce ==
    owed = (IF button_pressed THEN 1 ELSE 0)
           + (IF pc \in { "disable", "snap_hour", "snap_minute", "call_display" }
              THEN 1 ELSE 0)

\* C12 witness: a press in IDLE was captured, its display has begun, and
\* nothing is pending.
C12_Witness ==
    /\ pc = "dt_hour"
    /\ new_press
    /\ owed = 0
    /\ ~button_pressed

\* C13: throughout SERVICING display_time works on the snapshot main took,
\* and the pulses of the finished sequence are those of the snapshot
\* (cur_hour, cur_minute) alone, whatever ticks fired during the sequence.
C13_StableDisplay ==
    /\ SchedState = "SERVICING" => (dt_h = cur_hour /\ dt_m = cur_minute)
    /\ DisplayDone =>
         PulseWidths(events) =
             Rep(1000, cur_hour) \o Rep(500, cur_minute \div 15)
                                 \o Rep(250, cur_minute % 15)

\* C13 witness: a sequence has finished; when it began the clock still showed
\* the snapshot, and ticks during it have rolled the hour over.
C13_Witness ==
    /\ DisplayDone
    /\ Len(snap_hist) = 3
    /\ snap_hist[3] = << cur_hour, cur_minute >>
    /\ hour # cur_hour

\* C14: when button_handler re-samples the line after its debounce delay and
\* reads it released (1), it leaves button_pressed unchanged; button_pressed
\* becomes True only in a handler run that reads the line asserted (0); and
\* main begins to service a request only with the flag set, so an edge that
\* bounced back causes no display.
C14_DebounceSample ==
    [][ /\ (isr = "debounce" /\ isr' = "none" /\ line = 1) =>
               button_pressed' = button_pressed
        /\ (~button_pressed /\ button_pressed') =>
               (isr = "debounce" /\ isr' = "none" /\ line = 0)
        /\ (pc = "poll" /\ pc' = "clear") => button_pressed ]_vars

\* C14 witness: since the re-arm a falling edge has entered the handler, the
\* handler has finished, and no request was set or taken: the line had
\* returned to 1 at the re-sample.
C14_Witness ==
    /\ pc = "poll"
    /\ irq_handler
    /\ new_press
    /\ isr = "none"
    /\ line = 1
    /\ ~button_pressed
    /\ owed = 0

\* C15 (as claimed): button_handler is registered exactly while the scheduler
\* is IDLE; it is registered again only by the re-arm, which follows the
\* settle delay, which follows a read of the line at the released level,
\* which follows the return of display_time; while the line reads pressed the
\* scheduler stays in AWAIT_RELEASE; and after a playback through which the
\* button was held down, a display starts only once a falling edge has reached
\* the handler since the re-arm.
C15_HandlerWhileIdle ==
    /\ [](irq_handler <=> SchedState = "IDLE")
    /\ [][ /\ (~irq_handler /\ irq_handler') => (pc = "rearm" /\ pc' = "idle_sleep")
           /\ (pc # "rearm" /\ pc' = "rearm") => pc = "settle"
           /\ (pc # "settle" /\ pc' = "settle") => (pc = "release_poll" /\ line = 1)
           /\ (pc # "release_poll" /\ pc' = "release_poll") =>
                  pc \in { "dt_return", "release_sleep" }
           /\ (pc # "release_sleep" /\ pc' = "release_sleep") =>
                  (pc = "release_poll" /\ line = 0)
           /\ (pc = "release_poll" /\ line = 0 /\ pc' # pc) => pc' = "release_sleep"
           /\ (held /\ pc = "poll" /\ pc' = "clear") => new_press
         ]_vars

\* C16: when a finished display_time call had the same (h, m) as the call
\* before it, its sequence of LED writes and sleeps is the same as that of the
\* call before, whatever second, ampm and time_updated were and whatever
\* ticks and button edges occurred.
C16_SameSnapshotSameTrace ==
    (DisplayDone /\ last_hm = << dt_h, dt_m >>) => events = last_events

\* C16 witness: the same snapshot has been displayed twice in a row, with at
\* least one tick since the start.
C16_Witness ==
    /\ DisplayDone
    /\ last_hm = << dt_h, dt_m >>
    /\ Len(last_events) > 0
    /\ nticks >= 1

\* C17: a step changes second, minute, hour or ampm only if it is a timer
\* callback, so the steps of the button line, of the handler and of the main
\* task leave them; button_pressed becomes True only in the handler's sample
\* step and becomes False only in main's line 130; a timer callback leaves
\* button_pressed, the LED and the position of the main task unchanged.
C17_SingleWriter ==
    [][ /\ (<< hour, minute, second, ampm >>' # << hour, minute, second, ampm >>) =>
               nticks' = nticks + 1
        /\ (pc' # pc \/ isr' # isr \/ line' # line) =>
               << hour, minute, second, ampm >>' = << hour, minute, second, ampm >>
        /\ (~button_pressed /\ button_pressed') => (isr = "debounce" /\ isr' = "none")
        /\ (button_pressed /\ ~button_pressed') => (pc = "clear" /\ pc' = "disable")
        /\ (nticks' # nticks) =>
               (button_pressed' = button_pressed /\ led' = led /\ pc' = pc)
      ]_vars

\* C17 witness: the timer has fired and the main task is inside a pulse with
\* the LED on.
C17_Witness ==
    /\ prev_clock # NoTick
    /\ pc = "fg_on_sleep"
    /\ led = 1

\* The whole program with its scheduling: the asyncio loop resumes the one
\* task after each of its sleeps, so main, display_time and flash_group keep
\* taking steps, and the handler's blocking sleep_ms(20) returns.
SpecLive ==
    /\ Init
    /\ [][Next]_vars
    /\ WF_vars(MainStep \/ DisplayStep)
    /\ WF_vars(ButtonHandlerSample)

\* C18: every SERVICING phase reaches AWAIT_RELEASE, whatever ticks and
\* button edges occur; if the line is eventually released for good, every
\* AWAIT_RELEASE phase returns to IDLE with the handler registered; and in
\* every reachable state the program has a step to take.
C18_RunsToCompletion ==
    /\ (SchedState = "SERVICING") ~> (SchedState = "AWAIT_RELEASE")
    /\ (<>[](line = 1)) =>
          ((SchedState = "AWAIT_RELEASE") ~> (SchedState = "IDLE" /\ irq_handler))
    /\ [](ENABLED (MainStep \/ DisplayStep \/ ButtonHandlerSample))

\* C18 witness: after a display the button was released and the scheduler
\* is back in IDLE with the handler registered.
C18_Witness ==
    /\ pc = "idle_sleep"
    /\ irq_handler
    /\ line = 1
    /\ LedOnCount(events) > 0

(***************************************************************************)
(* The clock over a whole day: tick applied 86400 times in a row            *)
(***************************************************************************)
HalfDay == 12 * 60 * 60
FullDay == 2 * HalfDay

\* Readings the day-long runs start from: those of StartTimes, every hour
\* of both half-days at the first and last second of its first and last
\* minute, and one reading in mid-hour.
PeriodStarts ==
    StartTimes \cup ((1..12) \X {0, 59} \X {0, 59} \X {0, 1})
               \cup { << 6, 30, 30, 1 >> }

InitPeriod ==
    /\ \E t \in PeriodStarts : InitClock(t) /\ start_clock = t
    /\ irq_handler = TRUE
    /\ line = 1
    /\ pc = "poll"
    /\ dt_h = 0
    /\ dt_m = 0
    /\ InitRest

\* One more timer callback, counting the changes of ampm.
PeriodTick ==
    /\ nticks < FullDay
    /\ nticks' = nticks + 1
    /\ tick
    /\ toggles' = IF ampm' # ampm THEN toggles + 1 ELSE toggles
    /\ UNCHANGED start_clock

NextPeriod == PeriodTick

SpecPeriod == InitPeriod /\ [][NextPeriod]_vars

\* C19: after exactly 43200 ticks second, minute and hour are back at their
\* starting values, ampm has changed exactly once and so is flipped; after
\* exactly 86400 ticks the whole clock, ampm included, is back at its
\* starting value.
C19_TwelveHourPeriod ==
    /\ nticks = HalfDay =>
          /\ << hour, minute, second >> = << start_clock[1], start_clock[2], start_clock[3] >>
          /\ toggles = 1
          /\ ampm # start_clock[4]
    /\ nticks = FullDay =>
          << hour, minute, second, ampm >> = start_clock

\* C19 witness: 43200 ticks after the boot time 5:43:00 AM the clock shows
\* 5:43:00 PM.
C19_Witness ==
    /\ nticks = HalfDay
    /\ start_clock = BootTime
    /\ << hour, minute, second, ampm >> = << 5, 43, 0, 1 >>


\* C20: the LED is on only inside a pulse of a display sequence. Whenever
\* the LED output is 1 the main task is between led.value(1) and
\* led.value(0) of flash_group; in IDLE and AWAIT_RELEASE, in the pauses
\* between groups, in the off-waits inside a group and when display_time
\* returns the LED output is 0.
C20_LedOffOutsidePulse ==
    /\ led \in { 0, 1 }
    /\ led = 1 => pc \in { "fg_on_sleep", "fg_off" }
    /\ SchedState \in { "IDLE", "AWAIT_RELEASE" } => led = 0
    /\ pc \in { "dt_pause_h", "dt_pause_q", "fg_off_sleep" } => led = 0
    /\ DisplayDone => led = 0

\* A display sequence that flashed the LED has completed and the main task
\* waits for the release with the LED off.
C20_Witness ==
    /\ pc = "release_poll"
    /\ led = 0
    /\ LedOnCount(events) > 0

=============================================================================
